---- MODULE Spec2Model ----
(***************************************************************************)
(* The parser-request store of vk_parser: one relational table of parser   *)
(* requests, written and read through ParserRequestStorage.  A state is    *)
(* the table plus the most recent store call with its outcome, as seen by  *)
(* the caller.                                                             *)
(***************************************************************************)
EXTENDS Integers, Sequences, FiniteSets, TLC

\* Largest number of rows the table holds in the model.
MaxRows == 2

\* Largest number of store calls in a run of the model.
MaxCalls == 4

\* An optional value: None, or Some(x).
None == <<>>
Some(x) == <<x>>

\* The status enumeration (vk_parser.generals.enums.RequestStatus).
RequestStatus == {"PENDING", "PROCESSING", "SUCCESSFUL", "EMPTY", "FAILED"}
NonTerminal == {"PENDING", "PROCESSING"}
Terminal == {"SUCCESSFUL", "EMPTY", "FAILED"}

\* The parser types, the discriminators of the two input variants.
ParserTypes == {"VK_SIMPLE_DOWNLOAD", "VK_DOWNLOAD_AND_PARSED_POSTS"}

\* Primary keys the table may hand out, and the ids callers may pass.
Ids == 1 .. MaxRows

\* Timestamps callers pass as finished_at.
Times == {1, 2}

\* Error messages and result messages callers pass.
ErrorMessages == {"boom"}
Messages == {"ok"}

\* The two input variants, one value of each.
SimpleVkInputData(data) ==
    [parser_type |-> data.parser_type,
     group_url |-> data.group_url,
     max_age |-> data.max_age]

ParsePostsVkInputData(data) ==
    [parser_type |-> data.parser_type,
     group_url |-> data.group_url,
     posted_up_to |-> data.posted_up_to,
     max_age |-> data.max_age]

Inputs ==
    {[parser_type |-> "VK_SIMPLE_DOWNLOAD",
      group_url |-> "https://vk.com/example", max_age |-> 10],
     [parser_type |-> "VK_DOWNLOAD_AND_PARSED_POSTS",
      group_url |-> "https://vk.com/example", posted_up_to |-> 1,
      max_age |-> 10]}

\* Results a worker may save: user_stat is a sequence of {vk_id, count}.
UserStat(u) == [vk_id |-> u.vk_id, count |-> u.count]

Results ==
    {[message |-> m, user_stat |-> <<[vk_id |-> 1, count |-> 5]>>] :
        m \in Messages}

\* A dump that loses the per-user statistics.
model_dump_lossy(result) ==
    [message |-> result.message, user_stat |-> <<>>]

\* result.model_dump(): the result as a JSON document.
model_dump(result) ==
    [message |-> result.message,
     user_stat |-> [i \in 1 .. Len(result.user_stat) |->
                       [vk_id |-> result.user_stat[i].vk_id,
                        count |-> result.user_stat[i].count]]]

\* ResultData.model_validate of a stored JSON document.
ResultData(doc) ==
    [message |-> doc.message,
     user_stat |-> [i \in 1 .. Len(doc.user_stat) |-> UserStat(doc.user_stat[i])]]

\* The input union of DetailParserRequest, dispatched on the discriminator.
InputUnion(data) ==
    IF data.parser_type = "VK_DOWNLOAD_AND_PARSED_POSTS"
    THEN ParsePostsVkInputData(data)
    ELSE SimpleVkInputData(data)

VARIABLES
    rows,   \* the table: id -> row
    ret,    \* the most recent store call: its arguments and its outcome
    calls,  \* the number of store calls made so far
    last_write,  \* per row, the most recent call whose write to it was committed
    inflight    \* the calls that have started and not ended, with their sessions

vars == <<rows, ret, calls, last_write, inflight>>

\* A freshly inserted row: the column defaults of the table.  created_at is
\* the time of the insert, told by the number of calls made before it.
NewRow(input_data) ==
    [created_at |-> calls,
     status |-> "PENDING",
     input_data |-> input_data,
     result_data |-> None,
     finished_at |-> None,
     error_message |-> None]

\* DetailParserRequest.model_validate(obj) of the row with primary key id_.
DetailParserRequest(id_, obj) ==
    [id |-> id_,
     created_at |-> obj.created_at,
     status |-> obj.status,
     input_data |-> InputUnion(obj.input_data),
     result_data |-> IF obj.result_data = None THEN None
                     ELSE Some(ResultData(obj.result_data[1])),
     finished_at |-> obj.finished_at,
     error_message |-> obj.error_message]

\* A parser_type that ignores the stored input.
parser_type_fixed(detail) == "VK_SIMPLE_DOWNLOAD"

\* DetailParserRequest.parser_type
parser_type(detail) == detail.input_data.parser_type

\* What the data-access layer does to a call: nothing, a DBAPIError at the
\* statement, or a DBAPIError at the commit.
Failures == {"ok", "execute", "commit"}

\* A session whose statement stays in the table when the commit fails.
commit_autocommit(fail, written) == IF fail = "execute" THEN rows ELSE written

\* The table after the call's session ends: the statement's effect once
\* committed, the table as it was when the statement or the commit failed
\* (the session closes without a commit and the transaction is rolled back).
commit(fail, written) == IF fail = "ok" THEN written ELSE rows

\* The caller's record of a call.
NoArgs ==
    [id |-> 0, input_data |-> None, status |-> None, finished_at |-> None,
     result |-> None, message |-> None]

\* kind is "return" (val is the returned value, None for a call that returns
\* nothing) or "raise" (exc names the exception that reached the caller).
Call(op, args, fail, kind, val, exc) ==
    [op |-> op, args |-> args, dbfail |-> fail # "ok", kind |-> kind,
     val |-> val, exc |-> exc]

Return(op, args, fail, val) == Call(op, args, fail, "return", val, "")
Raise(op, args, fail, exc) == Call(op, args, fail, "raise", None, exc)

Init ==
    /\ rows = <<>>
    /\ ret = Return("init", NoArgs, "ok", None)
    /\ calls = 0
    /\ last_write = <<>>
    /\ inflight = <<>>

\* A caller makes one more store call, which runs to its end before the next
\* step: it leaves nothing in flight.
Called == calls < MaxCalls /\ calls' = calls + 1 /\ UNCHANGED inflight

\* The writes on record once a call has ended: the call replaces the record
\* of the row it matched when its write was committed.
Written(id_, fail, op, args) ==
    IF fail = "ok" /\ id_ \in DOMAIN rows
    THEN [last_write EXCEPT ![id_] = [op |-> op, args |-> args]]
    ELSE last_write

\* An UPDATE that stamps created_at as if it were updated_at.
Update_restamp(id_, values) ==
    IF id_ \in DOMAIN rows
    THEN [rows EXCEPT ![id_] = [f \in DOMAIN rows[id_] |->
                                   IF f \in DOMAIN values THEN values[f]
                                   ELSE IF f = "created_at" THEN calls + 1
                                   ELSE rows[id_][f]]]
    ELSE rows

\* An UPDATE without its WHERE clause.
Update_all(id_, values) ==
    [i \in DOMAIN rows |-> [f \in DOMAIN rows[i] |->
                               IF f \in DOMAIN values THEN values[f]
                               ELSE rows[i][f]]]

\* UPDATE ... WHERE id = id_: the matching row, if any, with the values.
Update(id_, values) ==
    IF id_ \in DOMAIN rows
    THEN [rows EXCEPT ![id_] = [f \in DOMAIN rows[id_] |->
                                   IF f \in DOMAIN values THEN values[f]
                                   ELSE rows[id_][f]]]
    ELSE rows

\* INSERT ... VALUES (input_data): a new row under a primary key no row has.
Insert(id_, input_data) ==
    [i \in DOMAIN rows \cup {id_} |->
        IF i = id_ THEN NewRow(input_data) ELSE rows[i]]

\* get_detail reading its row with one() in place of one_or_none().
get_detail_one(id_) ==
    /\ Called
    /\ ret' = IF id_ \in DOMAIN rows
              THEN Return("get_detail", [NoArgs EXCEPT !.id = id_], "ok",
                          Some(DetailParserRequest(id_, rows[id_])))
              ELSE Raise("get_detail", [NoArgs EXCEPT !.id = id_], "ok",
                         "NoResultFound")
    /\ UNCHANGED <<rows, last_write>>

get_detail(id_) ==
    /\ Called
    /\ ret' = Return("get_detail", [NoArgs EXCEPT !.id = id_], "ok",
                     IF id_ \in DOMAIN rows
                     THEN Some(DetailParserRequest(id_, rows[id_]))
                     ELSE None)
    /\ UNCHANGED <<rows, last_write>>

create(input_data, fail) ==
    \E id_ \in Ids \ DOMAIN rows :
        LET written == Insert(id_, input_data)
            args == [NoArgs EXCEPT !.input_data = Some(input_data)]
        IN  /\ Called
            /\ rows' = commit(fail, written)
            /\ ret' = IF fail # "ok"
                      THEN Return("create", args, fail, None)
                      ELSE Return("create", args, fail,
                                  Some(DetailParserRequest(id_, written[id_])))
            /\ last_write' =
                  IF fail # "ok" THEN last_write
                  ELSE [i \in DOMAIN rows \cup {id_} |->
                          IF i = id_ THEN [op |-> "create", args |-> args]
                          ELSE last_write[i]]

update_status(id_, status, fail) ==
    LET written == Update(id_, [status |-> status])
        args == [NoArgs EXCEPT !.id = id_, !.status = Some(status)]
    IN  /\ Called
        /\ rows' = commit(fail, written)
        /\ ret' = IF fail # "ok"
                  THEN Return("update_status", args, fail, None)
                  ELSE IF id_ \in DOMAIN rows
                       THEN Return("update_status", args, fail,
                                   Some(DetailParserRequest(id_, written[id_])))
                       ELSE Raise("update_status", args, fail, "NoResultFound")
        /\ last_write' = Written(id_, fail, "update_status", args)

\* A save_error whose except clause does not catch the data-access error.
save_error_uncaught(id_, finished_at, error_message, fail) ==
    LET written == Update(id_, [finished_at |-> Some(finished_at),
                                status |-> "FAILED",
                                error_message |-> Some(error_message)])
        args == [NoArgs EXCEPT !.id = id_, !.finished_at = Some(finished_at),
                               !.message = Some(error_message)]
    IN  /\ Called
        /\ rows' = commit(fail, written)
        /\ ret' = IF fail # "ok"
                  THEN Raise("save_error", args, fail, "DBAPIError")
                  ELSE Return("save_error", args, fail, None)
        /\ last_write' = Written(id_, fail, "save_error", args)

save_error(id_, finished_at, error_message, fail) ==
    LET written == Update(id_, [finished_at |-> Some(finished_at),
                                status |-> "FAILED",
                                error_message |-> Some(error_message)])
        args == [NoArgs EXCEPT !.id = id_, !.finished_at = Some(finished_at),
                               !.message = Some(error_message)]
    IN  /\ Called
        /\ rows' = commit(fail, written)
        /\ ret' = Return("save_error", args, fail, None)
        /\ last_write' = Written(id_, fail, "save_error", args)

save_empty_result(id_, finished_at, message, fail) ==
    LET written == Update(id_, [finished_at |-> Some(finished_at),
                                status |-> "EMPTY",
                                result_data |-> Some([message |-> message,
                                                      user_stat |-> <<>>])])
        args == [NoArgs EXCEPT !.id = id_, !.finished_at = Some(finished_at),
                               !.message = Some(message)]
    IN  /\ Called
        /\ rows' = commit(fail, written)
        /\ ret' = Return("save_empty_result", args, fail, None)
        /\ last_write' = Written(id_, fail, "save_empty_result", args)

save_successful_result(id_, result, finished_at, fail) ==
    LET written == Update(id_, [finished_at |-> Some(finished_at),
                                status |-> "SUCCESSFUL",
                                result_data |-> Some(model_dump(result))])
        args == [NoArgs EXCEPT !.id = id_, !.finished_at = Some(finished_at),
                               !.result = Some(result)]
    IN  /\ Called
        /\ rows' = commit(fail, written)
        /\ ret' = Return("save_successful_result", args, fail, None)
        /\ last_write' = Written(id_, fail, "save_successful_result", args)

Next ==
    \/ \E id_ \in Ids : get_detail(id_)
    \/ \E input_data \in Inputs, fail \in Failures : create(input_data, fail)
    \/ \E id_ \in Ids, status \in RequestStatus, fail \in Failures :
          update_status(id_, status, fail)
    \/ \E id_ \in Ids, t \in Times, e \in ErrorMessages, fail \in Failures :
          save_error(id_, t, e, fail)
    \/ \E id_ \in Ids, t \in Times, m \in Messages, fail \in Failures :
          save_empty_result(id_, t, m, fail)
    \/ \E id_ \in Ids, r \in Results, t \in Times, fail \in Failures :
          save_successful_result(id_, r, t, fail)

Spec == Init /\ [][Next]_vars

----------------------------------------------------------------------------
(***************************************************************************)
(* The read side: the two listings, get_detail and stat, over a table that *)
(* no call writes.  stat runs one stat_by_type task per parser type on the *)
(* event loop; each task holds its own session while its query runs.       *)
(***************************************************************************)

\* The parser types in their enumeration order, the order of "for pt in
\* ParserTypes".
ParserTypesOrder == <<"VK_SIMPLE_DOWNLOAD", "VK_DOWNLOAD_AND_PARSED_POSTS">>

\* Creation times of the rows of a table that is read.
CreatedAts == {0, 1}

\* Statuses of the rows of a table that is read.
Statuses == {"PENDING", "FAILED"}

\* An order of the rows that are read, by creation time, then parser type,
\* then status.
Before(a, b) ==
    \/ a.created_at < b.created_at
    \/ /\ a.created_at = b.created_at
       /\ a.input_data.parser_type # b.input_data.parser_type
       /\ a.input_data.parser_type = ParserTypesOrder[1]
    \/ /\ a.created_at = b.created_at
       /\ a.input_data.parser_type = b.input_data.parser_type
       /\ a.status # b.status
       /\ a.status = "PENDING"

\* The tables that are read: up to MaxRows rows that create and update_status
\* have written, some of them created at the same time.  An id is a label
\* that create picks freely, so of the tables that differ in their ids only,
\* the one whose rows are in order is read.
Tables ==
    UNION {{t \in [1 .. n -> {[NewRow(input_data) EXCEPT !.created_at = c,
                                                          !.status = st] :
                                 input_data \in Inputs, c \in CreatedAts,
                                 st \in Statuses}] :
               \A i, j \in 1 .. n : i < j => ~Before(t[j], t[i])} :
           n \in 0 .. MaxRows}

\* The orders in which a query may return the rows in S.
Orders(S) ==
    {q \in [1 .. Cardinality(S) -> S] :
        \A i, j \in 1 .. Cardinality(S) : i # j => q[i] # q[j]}

\* select(ParserRequestDb): every row, in an order the database chooses.
SelectAll == Orders(DOMAIN rows)

\* A listing query that forgets its ORDER BY.
SelectUnordered == SelectAll

\* select(ParserRequestDb).order_by(created_at.desc()): every row, newest
\* first, rows created at the same time in an order the database chooses.
SelectByCreatedAtDesc ==
    {q \in Orders(DOMAIN rows) :
        \A i \in 1 .. Len(q) - 1 :
            rows[q[i]].created_at >= rows[q[i + 1]].created_at}

\* ParserRequest.model_validate(obj): the summary shape of a row.
ParserRequest(id_, obj) ==
    [id |-> id_,
     created_at |-> obj.created_at,
     status |-> obj.status,
     finished_at |-> obj.finished_at,
     error_message |-> obj.error_message]

\* The first and last positions of a page in the query's result.
PageFirst(page, page_size) == (page - 1) * page_size + 1
PageLast(q, page, page_size) ==
    IF page * page_size < Len(q) THEN page * page_size ELSE Len(q)

\* PaginationMixin._paginate: the total of the query, and the items at
\* offset (page - 1) * page_size, at most page_size of them.
Paginate(q, page, page_size) ==
    [ids |-> SubSeq(q, PageFirst(page, page_size), PageLast(q, page, page_size)),
     total |-> Len(q),
     page |-> page,
     page_size |-> page_size]

\* The number of pages of a scan of n rows in pages of k.
PageCount(n, k) == (n + k - 1) \div k

\* Page sizes callers ask for, and the pages they ask for in a size: as many
\* as a full table has.
PageSizes == 1 .. MaxRows
Pages(page_size) == 1 .. PageCount(MaxRows, page_size)

PageArgs(page, page_size) ==
    [id |-> 0, input_data |-> None, status |-> None, finished_at |-> None,
     result |-> None, message |-> None, page |-> page, page_size |-> page_size]

\* No scan of a listing is under way.
NoScan == [op |-> "none", page_size |-> 0, pages |-> <<>>]

\* A caller scanning a listing page by page: page 1 starts a scan, the next
\* page in sequence with the same page size continues it, any other page
\* abandons it.  pages holds the ids of each page fetched.
Scanned(op, page, page_size, ids) ==
    LET scan == inflight.scan
    IN  IF page = 1
        THEN [op |-> op, page_size |-> page_size, pages |-> <<ids>>]
        ELSE IF /\ scan.op = op
                /\ scan.page_size = page_size
                /\ page = Len(scan.pages) + 1
             THEN [scan EXCEPT !.pages = Append(scan.pages, ids)]
             ELSE NoScan

\* No stat is awaited and no task of one is left.
Idle == [caller |-> "idle", tasks |-> <<>>, scan |-> NoScan]

InitQuery ==
    /\ calls = 0
    /\ rows \in Tables
    /\ ret = Return("init", NoArgs, "ok", None)
    /\ last_write = [i \in DOMAIN rows |-> [op |-> "create", args |-> NoArgs]]
    /\ inflight = Idle

\* The number of reads a caller makes.
MaxReads == 2

\* A caller that awaits no call may make one more.
Idling == inflight.caller = "idle" /\ calls < MaxReads

Calling == Idling /\ calls' = calls + 1

\* model_type.model_validate(obj) of a listing.
Validated(model_type, id_, obj) ==
    IF model_type = "DetailParserRequest"
    THEN DetailParserRequest(id_, obj)
    ELSE ParserRequest(id_, obj)

Listing(op, q, page, page_size, model_type) ==
    LET p == Paginate(q, page, page_size)
        items == [i \in 1 .. Len(p.ids) |->
                     Validated(model_type, p.ids[i], rows[p.ids[i]])]
    IN  /\ Calling
        /\ ret' = Return(op, PageArgs(page, page_size), "ok",
                         Some([items |-> items, total |-> p.total,
                               page |-> p.page, page_size |-> p.page_size]))
        /\ inflight' = [inflight EXCEPT
                          !.scan = Scanned(op, page, page_size, p.ids)]
        /\ UNCHANGED <<rows, last_write>>

get_pagination(page, page_size) ==
    \E q \in SelectAll :
        Listing("get_pagination", q, page, page_size, "ParserRequest")

admin_pagination(page, page_size) ==
    \E q \in SelectByCreatedAtDesc :
        Listing("admin_pagination", q, page, page_size, "DetailParserRequest")

\* The rows whose input_data["parser_type"] is the type, without the
\* filter: every row.
OfType_nofilter(type_) == DOMAIN rows

\* The rows whose input_data["parser_type"] is the type.
OfType(type_) ==
    {i \in DOMAIN rows : rows[i].input_data.parser_type = type_}

\* The number of rows of a parser type in a status.
Count(type_, status) ==
    Cardinality({i \in OfType(type_) : rows[i].status = status})

\* The results of the query of stat_by_type: one (status, count) pair per
\* status that some row of the type has, in an order the database chooses.
Grouped(type_) ==
    LET present == {rows[i].status : i \in OfType(type_)}
    IN  {[k \in 1 .. Cardinality(present) |-> <<q[k], Count(type_, q[k])>>] :
            q \in Orders(present)}

\* A stat_by_type task the event loop has not run yet.
Scheduled == [pc |-> "scheduled", session |-> "none", exc |-> "", res |-> <<>>]

\* stat(): one stat_by_type task per parser type is handed to gather, and
\* the caller awaits them.  One stat at a time: the tasks of the stat before
\* are over.
stat_call ==
    /\ Calling
    /\ \A pt \in DOMAIN inflight.tasks : inflight.tasks[pt].pc = "done"
    /\ ret' = Call("stat", NoArgs, "ok", "pending", None, "")
    /\ inflight' = [inflight EXCEPT
                      !.caller = "stat",
                      !.tasks = [pt \in ParserTypes |-> Scheduled],
                      !.scan = NoScan]
    /\ UNCHANGED <<rows, last_write>>

\* A stat_by_type task runs up to its query: inject_session opens the
\* session of this call and the task awaits session.execute.
stat_by_type_execute(type_) ==
    /\ type_ \in DOMAIN inflight.tasks
    /\ inflight.tasks[type_].pc = "scheduled"
    /\ inflight' = [inflight EXCEPT
                      !.tasks[type_] =
                          [pc |-> "executing", session |-> "open", exc |-> "",
                           res |-> <<>>]]
    /\ UNCHANGED <<rows, ret, calls, last_write>>

\* The query of a task is over, with its result or with a DBAPIError; the
\* session of the task is closed on the way out of inject_session.  Every
\* task was run up to its query before the loop sees a query end.
stat_by_type_return(type_, fail) ==
    /\ type_ \in DOMAIN inflight.tasks
    /\ inflight.tasks[type_].pc = "executing"
    /\ \A pt \in DOMAIN inflight.tasks : inflight.tasks[pt].pc # "scheduled"
    /\ \E res \in Grouped(type_) :
          inflight' = [inflight EXCEPT
                          !.tasks[type_] =
                              IF fail
                              THEN [pc |-> "done", session |-> "closed",
                                    exc |-> "DBAPIError", res |-> <<>>]
                              ELSE [pc |-> "done", session |-> "closed",
                                    exc |-> "", res |-> res]]
    /\ UNCHANGED <<rows, ret, calls, last_write>>

Failed(task) == task.pc = "done" /\ task.exc # ""
Succeeded(task) == task.pc = "done" /\ task.exc = ""

\* The (type, status, count) triples of the results of the first n parser
\* types, type by type in enumeration order.
RECURSIVE Triples(_, _)
Triples(results, n) ==
    IF n = 0 THEN <<>>
    ELSE Triples(results, n - 1) \o
         [k \in 1 .. Len(results[ParserTypesOrder[n]]) |->
             <<ParserTypesOrder[n],
               results[ParserTypesOrder[n]][k][1],
               results[ParserTypesOrder[n]][k][2]>>]

\* gather that drops the tasks that failed instead of raising.
gather_return_exceptions(tasks) ==
    IF \A pt \in DOMAIN tasks : tasks[pt].pc = "done"
    THEN <<"return",
           [pt \in DOMAIN tasks |->
               IF Failed(tasks[pt]) THEN <<>> ELSE tasks[pt].res]>>
    ELSE <<"pending">>

\* await gather(*tasks): the first task to fail raises its exception in
\* the awaiting caller and the other tasks go on; with every task done and
\* none failed, the results in the order of the tasks.
gather(tasks) ==
    IF \E pt \in DOMAIN tasks : Failed(tasks[pt])
    THEN <<"raise", tasks[CHOOSE pt \in DOMAIN tasks : Failed(tasks[pt])].exc>>
    ELSE IF \A pt \in DOMAIN tasks : Succeeded(tasks[pt])
         THEN <<"return", [pt \in DOMAIN tasks |-> tasks[pt].res]>>
         ELSE <<"pending">>

\* stat() resumes from gather: it raises what gather raised, or returns the
\* triples of the results.
stat_resume ==
    LET g == gather(inflight.tasks)
    IN  /\ inflight.caller = "stat"
        /\ g[1] # "pending"
        /\ ret' = IF g[1] = "raise"
                  THEN Raise("stat", NoArgs, "execute", g[2])
                  ELSE Return("stat", NoArgs, "ok",
                              Some(Triples(g[2], Len(ParserTypesOrder))))
        /\ inflight' = [inflight EXCEPT !.caller = "idle"]
        /\ UNCHANGED <<rows, calls, last_write>>

NextQuery ==
    \/ \E id_ \in Ids : Idling /\ get_detail(id_)
    \/ \E page_size \in PageSizes : \E page \in Pages(page_size) :
          get_pagination(page, page_size)
    \/ \E page_size \in PageSizes : \E page \in Pages(page_size) :
          admin_pagination(page, page_size)
    \/ stat_call
    \/ \E type_ \in ParserTypes : stat_by_type_execute(type_)
    \/ \E type_ \in ParserTypes, fail \in BOOLEAN :
          stat_by_type_return(type_, fail)
    \/ stat_resume

SpecQuery == InitQuery /\ [][NextQuery]_vars

----------------------------------------------------------------------------
(***************************************************************************)
(* The boundary of create: a handler parses the body of its request with   *)
(* CreateMixin._parse_json against a list of schemas and hands the         *)
(* instance it gets to create.                                             *)
(***************************************************************************)

\* Longest list of schemas a handler supplies.
MaxSchemas == 2

\* The schemas handlers supply.
Schemas == {"SimpleVkInputData", "ParsePostsVkInputData"}

SchemaLists == UNION {[1 .. n -> Schemas] : n \in 0 .. MaxSchemas}

\* URLs that HttpUrl accepts.
HttpUrl == {"https://vk.com/example"}

\* JSON documents of request bodies: the two of Inputs, and documents
\* without discriminator, with a discriminator of no variant, with a
\* group_url that is no URL, and with the discriminator of one variant and
\* the fields of the other.
Docs ==
    Inputs \cup
    {[group_url |-> "https://vk.com/example", max_age |-> 10],
     [parser_type |-> "VK_OTHER",
      group_url |-> "https://vk.com/example", max_age |-> 10],
     [parser_type |-> "VK_SIMPLE_DOWNLOAD",
      group_url |-> "example", max_age |-> 10],
     [parser_type |-> "VK_DOWNLOAD_AND_PARSED_POSTS",
      group_url |-> "https://vk.com/example", max_age |-> 10]}

\* Request bodies: bytes that are no text in the charset of the request,
\* text that is no JSON, and the JSON documents.
Bodies ==
    {[content |-> "bytes", doc |-> <<>>], [content |-> "text", doc |-> <<>>]}
    \cup {[content |-> "json", doc |-> d] : d \in Docs}

\* The fields and the discriminator of each schema.
Fields(schema) ==
    IF schema = "SimpleVkInputData"
    THEN {"parser_type", "group_url", "max_age"}
    ELSE {"parser_type", "group_url", "posted_up_to", "max_age"}

Tag(schema) ==
    IF schema = "SimpleVkInputData"
    THEN "VK_SIMPLE_DOWNLOAD"
    ELSE "VK_DOWNLOAD_AND_PARSED_POSTS"

\* schema.model_validate(data): the instance, or a ValidationError when a
\* field is missing, the discriminator is not the literal of the schema or
\* group_url is no URL.  Fields the schema does not have are ignored.
model_validate(schema, data) ==
    IF /\ Fields(schema) \subseteq DOMAIN data
       /\ data.parser_type = Tag(schema)
       /\ data.group_url \in HttpUrl
    THEN <<"BaseModel", IF schema = "SimpleVkInputData"
                        THEN SimpleVkInputData(data)
                        ELSE ParsePostsVkInputData(data)>>
    ELSE <<"ValidationError">>

\* _parse_schema: request.json decodes the bytes of the body as text and
\* loads the text with orjson; the instance, or the ValidationError or
\* JSONDecodeError that was caught, is returned.  The UnicodeDecodeError of
\* bytes that are no text is not caught and is raised.
_parse_schema(schema, body) ==
    IF body.content = "bytes" THEN <<"raise", "UnicodeDecodeError">>
    ELSE IF body.content = "text" THEN <<"JSONDecodeError">>
    ELSE model_validate(schema, body.doc)

\* The loop of _parse_json from schema n on, result being the result of
\* the schema before: the instance of the first schema that validates; an
\* HTTPBadRequest on a JSONDecodeError and when the schemas are used up.
RECURSIVE ParseFrom(_, _, _, _)
ParseFrom(schemas, body, n, result) ==
    IF n > Len(schemas)
    THEN <<"raise", "HTTPBadRequest">>
    ELSE LET r == _parse_schema(schemas[n], body)
         IN  IF r[1] = "BaseModel" THEN <<"return", r[2]>>
             ELSE IF r[1] = "JSONDecodeError" THEN <<"raise", "HTTPBadRequest">>
             ELSE IF r[1] = "raise" THEN r
             ELSE ParseFrom(schemas, body, n + 1, r)

ParseArgs(body, schemas) ==
    [id |-> 0, input_data |-> None, status |-> None, finished_at |-> None,
     result |-> None, message |-> None, body |-> body, schemas |-> schemas]

\* The handler has an instance from _parse_json that it has not yet handed
\* to create.
Parsed == ret.op = "_parse_json" /\ ret.kind = "return"

\* A handler receives a request and parses its body.
_parse_json(body, schemas) ==
    LET r == ParseFrom(schemas, body, 1, <<"None">>)
    IN  /\ ~Parsed
        /\ ret' = IF r[1] = "return"
                  THEN Return("_parse_json", ParseArgs(body, schemas), "ok",
                              Some(r[2]))
                  ELSE Raise("_parse_json", ParseArgs(body, schemas), "ok", r[2])
        /\ UNCHANGED <<rows, calls, last_write, inflight>>

\* The handler hands the instance to create.
handler_create(fail) == Parsed /\ create(ret.val[1], fail)

NextParse ==
    \/ \E body \in Bodies, schemas \in SchemaLists : _parse_json(body, schemas)
    \/ \E fail \in Failures : handler_create(fail)

SpecParse == Init /\ [][NextParse]_vars

----------------------------------------------------------------------------
(***************************************************************************)
(* Two workers writing at the same time.  Each worker makes one store      *)
(* write in a session of its own: the UPDATE is executed, which locks the  *)
(* row it matches until the session ends, and then the session commits.    *)
(***************************************************************************)

Workers == {"worker1", "worker2"}

\* The writes a worker may make: the name of the call, the id, and the
\* values of its UPDATE.
Writes ==
    UNION {
        {[op |-> "update_status", id |-> id_, values |-> [status |-> st]] :
            st \in RequestStatus}
        \cup
        {[op |-> "save_error", id |-> id_,
          values |-> [finished_at |-> Some(t), status |-> "FAILED",
                      error_message |-> Some(e)]] :
            t \in Times, e \in ErrorMessages}
        \cup
        {[op |-> "save_empty_result", id |-> id_,
          values |-> [finished_at |-> Some(t), status |-> "EMPTY",
                      result_data |-> Some([message |-> m, user_stat |-> <<>>])]] :
            t \in Times, m \in Messages}
        \cup
        {[op |-> "save_successful_result", id |-> id_,
          values |-> [finished_at |-> Some(t), status |-> "SUCCESSFUL",
                      result_data |-> Some(model_dump(r))]] :
            t \in Times, r \in Results} :
        id_ \in Ids}

\* The tables the workers start from: no row, or the row of one request
\* that is waiting or being processed.
RaceTables ==
    {<<>>} \cup
    {[i \in {1} |-> [NewRow(input_data) EXCEPT !.status = st]] :
        input_data \in Inputs, st \in NonTerminal}

\* A worker that has called its write and not yet executed the UPDATE.
Entered(write) ==
    [pc |-> "called", write |-> write, image |-> None, committed |-> FALSE]

InitRace ==
    /\ calls = 0
    /\ rows \in RaceTables
    /\ ret = Return("init", NoArgs, "ok", None)
    /\ last_write = [i \in DOMAIN rows |-> [op |-> "create", args |-> NoArgs]]
    /\ \E ws \in [Workers -> Writes] :
          inflight = [table |-> rows, workers |-> [w \in Workers |-> Entered(ws[w])]]

\* Row locks that never make an UPDATE wait.
RowLockFree_nowait(w) == TRUE

\* No session but that of w holds the lock of the row w is about to write:
\* an UPDATE waits for the session that wrote the row to end.
RowLockFree(w) ==
    \A v \in Workers \ {w} :
        ~ /\ inflight.workers[v].pc = "executed"
          /\ inflight.workers[v].image # None
          /\ inflight.workers[v].write.id = inflight.workers[w].write.id

\* The worker ends: its call returns or raises.
Ended(w, committed, outcome) ==
    /\ inflight' = [inflight EXCEPT !.workers[w].pc = "done",
                                    !.workers[w].committed = committed]
    /\ ret' = outcome
    /\ calls' = calls + 1

\* session.execute(query): the UPDATE fails with a DBAPIError, which the
\* call catches; or it runs on the row as committed, once no other session
\* holds the lock of the row, and leaves the new image of the row to be
\* committed.
execute(w, fail) ==
    LET me == inflight.workers[w]
        args == [NoArgs EXCEPT !.id = me.write.id]
    IN  /\ me.pc = "called"
        /\ UNCHANGED <<rows, last_write>>
        /\ IF fail
           THEN Ended(w, FALSE, Return(me.write.op, args, "execute", None))
           ELSE /\ RowLockFree(w)
                /\ inflight' =
                      [inflight EXCEPT
                         !.workers[w].pc = "executed",
                         !.workers[w].image =
                             IF me.write.id \in DOMAIN rows
                             THEN Some(Update(me.write.id,
                                              me.write.values)[me.write.id])
                             ELSE None]
                /\ UNCHANGED <<ret, calls>>

\* session.commit(): the image of the row becomes the row, or the commit
\* fails with a DBAPIError and the session is rolled back.  After its
\* commit update_status returns the row it wrote, and leaves at
\* result.one() when it wrote none.
session_commit(w, fail) ==
    LET me == inflight.workers[w]
        args == [NoArgs EXCEPT !.id = me.write.id]
        written == IF me.image # None
                   THEN [rows EXCEPT ![me.write.id] = me.image[1]]
                   ELSE rows
    IN  /\ me.pc = "executed"
        /\ rows' = commit(fail, written)
        /\ UNCHANGED last_write
        /\ Ended(w, fail = "ok",
                 IF fail = "ok" /\ me.write.op = "update_status"
                 THEN IF me.image # None
                      THEN Return(me.write.op, args, fail,
                                  Some(DetailParserRequest(me.write.id,
                                                           me.image[1])))
                      ELSE Raise(me.write.op, args, fail, "NoResultFound")
                 ELSE Return(me.write.op, args, fail, None))

NextRace ==
    \/ \E w \in Workers, fail \in BOOLEAN : execute(w, fail)
    \/ \E w \in Workers, fail \in {"ok", "commit"} : session_commit(w, fail)

SpecRace == InitRace /\ [][NextRace]_vars

----------------------------------------------------------------------------
\* The three terminal saves.
TerminalSaves == {"save_error", "save_empty_result", "save_successful_result"}

\* C1: in every reachable state, every row has finished_at null if and only
\* if its status is PENDING or PROCESSING.
C1_FinishedAtNullIffNonTerminal ==
    \A id_ \in DOMAIN rows :
        (rows[id_].finished_at = None) <=> (rows[id_].status \in NonTerminal)

\* C2: in every reachable state, every row is in exactly one of: no result
\* and no error; a result, no error and status SUCCESSFUL or EMPTY; an error,
\* no result and status FAILED.
C2_ExactlyOneOutcome ==
    \A id_ \in DOMAIN rows :
        LET r == rows[id_]
        IN  \/ r.result_data = None /\ r.error_message = None
            \/ /\ r.result_data # None
               /\ r.error_message = None
               /\ r.status \in {"SUCCESSFUL", "EMPTY"}
            \/ /\ r.error_message # None
               /\ r.result_data = None
               /\ r.status = "FAILED"

\* C3: every row whose status is SUCCESSFUL, EMPTY or FAILED has finished_at
\* set, the field of its status populated and the other field absent.
C3_TerminalStateInvariant ==
    \A id_ \in DOMAIN rows :
        LET r == rows[id_]
        IN  r.status \in Terminal =>
              /\ r.finished_at # None
              /\ r.status \in {"SUCCESSFUL", "EMPTY"} =>
                    r.result_data # None /\ r.error_message = None
              /\ r.status = "FAILED" =>
                    r.error_message # None /\ r.result_data = None

\* C4: terminal states are absorbing: no store operation changes the status
\* of a row whose status is SUCCESSFUL, EMPTY or FAILED.
C4_TerminalAbsorbing ==
    [][\A id_ \in DOMAIN rows :
          rows[id_].status \in Terminal =>
              rows'[id_].status = rows[id_].status]_vars

\* C5: finished_at is set exactly once per row: it goes from null to a value
\* exactly when the row leaves a non-terminal state, and once non-null it is
\* never changed.
C5_FinishedAtSetOnce ==
    [][\A id_ \in DOMAIN rows :
          /\ rows[id_].finished_at # None =>
                rows'[id_].finished_at = rows[id_].finished_at
          /\ (rows[id_].finished_at = None /\ rows'[id_].finished_at # None)
                <=> (rows[id_].status \in NonTerminal
                     /\ rows'[id_].status \in Terminal)]_vars

\* C6: update_status returns None and raises nothing, both when the
\* data-access layer fails and when no row has the id; with no matching row
\* the table is unchanged.
C6_UpdateStatusAbsent ==
    [][(/\ ret'.op = "update_status"
        /\ ret'.dbfail \/ ret'.args.id \notin DOMAIN rows)
          => /\ ret'.kind = "return"
             /\ ret'.val = None
             /\ ret'.args.id \notin DOMAIN rows => rows' = rows]_vars

\* C7: a create that does not fail adds exactly one row, under an id no
\* existing row has, leaves the existing rows as they were, and returns the
\* new row's detail record: status PENDING, finished_at, result_data and
\* error_message absent, parser_type the discriminator of the input supplied.
C7_CreateReturnsFreshPending ==
    [][(ret'.op = "create" /\ ~ret'.dbfail)
          => /\ ret'.kind = "return"
             /\ ret'.val # None
             /\ LET d == ret'.val[1]
                IN  /\ d.id \notin DOMAIN rows
                    /\ DOMAIN rows' = DOMAIN rows \cup {d.id}
                    /\ \A j \in DOMAIN rows : rows'[j] = rows[j]
                    /\ d = DetailParserRequest(d.id, rows'[d.id])
                    /\ d.status = "PENDING"
                    /\ d.finished_at = None
                    /\ d.result_data = None
                    /\ d.error_message = None
                    /\ parser_type(d) = ret'.args.input_data[1].parser_type]_vars

\* C7 witness: a create of the second variant has just returned the second
\* row of the table.
C7_Witness ==
    /\ ret.op = "create"
    /\ ~ret.dbfail
    /\ ret.val # None
    /\ Cardinality(DOMAIN rows) = 2
    /\ parser_type(ret.val[1]) = "VK_DOWNLOAD_AND_PARSED_POSTS"

\* C8: a get_detail(id) on an existing row whose most recent committed write
\* is a terminal save returns what that save wrote: status SUCCESSFUL,
\* result_data = r, finished_at = t after save_successful_result(id, r, t);
\* status EMPTY, result_data = {message: m, user_stat: []}, finished_at = t
\* after save_empty_result(id, t, m); status FAILED, error_message = e,
\* finished_at = t after save_error(id, t, e).
C8_GetDetailAfterSave ==
    (/\ ret.op = "get_detail"
     /\ ret.args.id \in DOMAIN rows
     /\ last_write[ret.args.id].op \in TerminalSaves)
       => /\ ret.kind = "return"
          /\ ret.val # None
          /\ LET d == ret.val[1]
                 w == last_write[ret.args.id]
             IN  /\ d.id = ret.args.id
                 /\ d.finished_at = w.args.finished_at
                 /\ w.op = "save_successful_result" =>
                       /\ d.status = "SUCCESSFUL"
                       /\ d.result_data = w.args.result
                 /\ w.op = "save_empty_result" =>
                       /\ d.status = "EMPTY"
                       /\ d.result_data =
                             Some([message |-> w.args.message[1],
                                   user_stat |-> <<>>])
                 /\ w.op = "save_error" =>
                       /\ d.status = "FAILED"
                       /\ d.error_message = w.args.message

\* C8 witness: get_detail has returned a row last written by
\* save_successful_result with per-user statistics and the second timestamp,
\* after another call came in between.
C8_Witness ==
    /\ ret.op = "get_detail"
    /\ ret.args.id \in DOMAIN rows
    /\ last_write[ret.args.id].op = "save_successful_result"
    /\ calls > 3
    /\ ret.val # None
    /\ ret.val[1].status = "SUCCESSFUL"
    /\ ret.val[1].finished_at = Some(2)
    /\ ret.val[1].result_data # None
    /\ Len(ret.val[1].result_data[1].user_stat) = 1

\* C9: a terminal save during which the data-access layer fails returns
\* normally, and the targeted row keeps its status, finished_at, result_data
\* and error_message.
C9_SaveSwallowsFailure ==
    [][(ret'.op \in TerminalSaves /\ ret'.dbfail)
          => /\ ret'.kind = "return"
             /\ ret'.val = None
             /\ \A id_ \in DOMAIN rows :
                   id_ = ret'.args.id =>
                     /\ id_ \in DOMAIN rows'
                     /\ rows'[id_].status = rows[id_].status
                     /\ rows'[id_].finished_at = rows[id_].finished_at
                     /\ rows'[id_].result_data = rows[id_].result_data
                     /\ rows'[id_].error_message = rows[id_].error_message]_vars

\* C9 witness: a failed save_error has returned and its row is still
\* PROCESSING with no finished_at.
C9_Witness ==
    /\ ret.op = "save_error"
    /\ ret.dbfail
    /\ ret.kind = "return"
    /\ ret.args.id \in DOMAIN rows
    /\ rows[ret.args.id].status = "PROCESSING"
    /\ rows[ret.args.id].finished_at = None

\* C10: a create during which the data-access layer fails returns None and
\* leaves the table as it was: no new row is visible afterwards.
C10_CreateFailureAbsent ==
    [][(ret'.op = "create" /\ ret'.dbfail)
          => /\ ret'.kind = "return"
             /\ ret'.val = None
             /\ rows' = rows]_vars

\* C10 witness: a failed create has returned None beside one existing row.
C10_Witness ==
    /\ ret.op = "create"
    /\ ret.dbfail
    /\ ret.val = None
    /\ Cardinality(DOMAIN rows) = 1

\* C16: no store operation removes a row or changes an existing row's id,
\* created_at or input_data; the set of ids only grows, one id at a time and
\* only through create, and the rows already there keep their ids.
C16_RowsKeepIdentity ==
    [][/\ DOMAIN rows \subseteq DOMAIN rows'
       /\ \A i \in DOMAIN rows :
             /\ rows'[i].created_at = rows[i].created_at
             /\ rows'[i].input_data = rows[i].input_data
             /\ DetailParserRequest(i, rows'[i]).id = DetailParserRequest(i, rows[i]).id
             /\ parser_type(DetailParserRequest(i, rows'[i]))
                   = parser_type(DetailParserRequest(i, rows[i]))
       /\ DOMAIN rows' # DOMAIN rows =>
             /\ ret'.op = "create"
             /\ Cardinality(DOMAIN rows') = Cardinality(DOMAIN rows) + 1]_vars

\* C16 witness: two rows, the older one written by a terminal save after the
\* younger one was created.
C16_Witness ==
    /\ Cardinality(DOMAIN rows) = 2
    /\ ret.op \in TerminalSaves
    /\ ~ret.dbfail
    /\ ret.args.id \in DOMAIN rows
    /\ \E j \in DOMAIN rows :
          rows[ret.args.id].created_at < rows[j].created_at

\* C19: a non-failing update_status(id, s) on an existing row, whatever its
\* status, returns the record with status s and changes the status of that
\* row and nothing else: its finished_at, result_data, error_message and
\* input_data and every other row stay as they were.
C19_UpdateStatusFrame ==
    [][(/\ ret'.op = "update_status"
        /\ ~ret'.dbfail
        /\ ret'.args.id \in DOMAIN rows)
          => LET i == ret'.args.id
                 s == ret'.args.status[1]
             IN  /\ ret'.kind = "return"
                 /\ ret'.val # None
                 /\ ret'.val[1].id = i
                 /\ ret'.val[1].status = s
                 /\ ret'.val[1].finished_at = rows[i].finished_at
                 /\ DOMAIN rows' = DOMAIN rows
                 /\ rows'[i] = [rows[i] EXCEPT !.status = s]
                 /\ \A j \in DOMAIN rows \ {i} : rows'[j] = rows[j]]_vars

\* C19 witness: update_status(id, PROCESSING) has returned PROCESSING with
\* finished_at null while another row, already FAILED, is in the table.
C19_Witness ==
    /\ ret.op = "update_status"
    /\ ~ret.dbfail
    /\ ret.val # None
    /\ ret.val[1].status = "PROCESSING"
    /\ ret.val[1].finished_at = None
    /\ \E j \in DOMAIN rows \ {ret.args.id} : rows[j].status = "FAILED"

----------------------------------------------------------------------------
\* Claims about the reads, under SpecQuery.

\* C11: every operation runs in a session acquired for that call and
\* released when the call ends, on success and on failure: once a call has
\* returned or raised to its caller, no session acquired for it is open.
C11_SessionReleasedAtCallEnd ==
    inflight.caller = "idle" =>
        \A pt \in DOMAIN inflight.tasks : inflight.tasks[pt].session # "open"

\* C12: stat returns a list only when every per-type query succeeded, and
\* then the list holds every pair of every query; when a per-type query
\* failed, stat raises and returns no list, whatever the other queries gave.
C12_StatAllOrNothing ==
    (ret.op = "stat" /\ ret.kind # "pending") =>
        LET tasks == inflight.tasks
        IN  /\ ret.kind = "return" <=> \A pt \in ParserTypes : Succeeded(tasks[pt])
            /\ ret.kind = "raise" <=> \E pt \in ParserTypes : Failed(tasks[pt])
            /\ ret.kind = "raise" => ret.val = None /\ ret.exc = "DBAPIError"
            /\ ret.kind = "return" =>
                  /\ ret.val # None
                  /\ \A pt \in ParserTypes :
                        \A k \in DOMAIN tasks[pt].res :
                            \E n \in DOMAIN ret.val[1] :
                                ret.val[1][n] = <<pt, tasks[pt].res[k][1],
                                                  tasks[pt].res[k][2]>>

C12_Witness ==
    /\ ret.op = "stat"
    /\ ret.kind = "raise"
    /\ \E pt \in ParserTypes :
          Succeeded(inflight.tasks[pt]) /\ inflight.tasks[pt].res # <<>>

\* The place of a parser type in the enumeration.
Place(pt) ==
    CHOOSE n \in DOMAIN ParserTypesOrder : ParserTypesOrder[n] = pt

\* The sum of the counts of the first n triples that are of type pt.
RECURSIVE SumCounts(_, _, _)
SumCounts(out, pt, n) ==
    IF n = 0 THEN 0
    ELSE SumCounts(out, pt, n - 1) + (IF out[n][1] = pt THEN out[n][3] ELSE 0)

\* C13: the list stat returns holds exactly one triple for each parser
\* type and status that at least one request has, none for a combination no
\* request has, each with the number of requests of that type in that
\* status; the counts of a type add up to the requests of the type; and the
\* triples of a type that comes earlier in the enumeration come first.
C13_StatTriples ==
    (ret.op = "stat" /\ ret.kind = "return") =>
        LET out == ret.val[1]
            Requests(pt, st) ==
                {i \in DOMAIN rows :
                    /\ parser_type(DetailParserRequest(i, rows[i])) = pt
                    /\ rows[i].status = st}
        IN  /\ \A pt \in ParserTypes, st \in RequestStatus :
                  Cardinality({k \in DOMAIN out : out[k][1] = pt /\ out[k][2] = st})
                      = IF Requests(pt, st) # {} THEN 1 ELSE 0
            /\ \A k \in DOMAIN out :
                  /\ out[k][1] \in ParserTypes
                  /\ out[k][2] \in RequestStatus
                  /\ out[k][3] = Cardinality(Requests(out[k][1], out[k][2]))
            /\ \A pt \in ParserTypes :
                  SumCounts(out, pt, Len(out))
                      = Cardinality(UNION {Requests(pt, st) : st \in RequestStatus})
            /\ \A k, l \in DOMAIN out :
                  k < l => Place(out[k][1]) <= Place(out[l][1])

C13_Witness ==
    /\ ret.op = "stat"
    /\ ret.kind = "return"
    /\ Len(ret.val[1]) = 2
    /\ ret.val[1][1][1] # ret.val[1][2][1]
    /\ Cardinality(DOMAIN rows) = 2

\* The ids of the pages of a scan, page after page.
RECURSIVE Flatten(_, _)
Flatten(pages, n) ==
    IF n = 0 THEN <<>> ELSE Flatten(pages, n - 1) \o pages[n]

\* C14: over a table of N rows that nothing writes, the pages 1 .. ceil(N/k)
\* of get_pagination in page size k, each fetched by a call of its own, hold
\* together exactly the N rows, each row once.
C14_ScanVisitsEachRowOnce ==
    LET scan == inflight.scan
        N == Cardinality(DOMAIN rows)
    IN  (scan.op = "get_pagination" /\ Len(scan.pages) = PageCount(N, scan.page_size)) =>
            LET all == Flatten(scan.pages, Len(scan.pages))
            IN  /\ Len(all) = N
                /\ \A i \in DOMAIN rows :
                      Cardinality({k \in DOMAIN all : all[k] = i}) = 1

\* C15: every page admin_pagination returns lists its items newest first
\* (created_at never increases from an item to the next), and over a table
\* that nothing writes every item of page p was created no earlier than
\* every item of page p + 1.
C15_AdminNewestFirst ==
    /\ (ret.op = "admin_pagination" /\ ret.kind = "return") =>
          LET items == ret.val[1].items
          IN  \A k \in 1 .. Len(items) - 1 :
                  items[k].created_at >= items[k + 1].created_at
    /\ inflight.scan.op = "admin_pagination" =>
          LET pages == inflight.scan.pages
          IN  \A p \in 1 .. Len(pages) - 1 :
                  \A a \in DOMAIN pages[p], b \in DOMAIN pages[p + 1] :
                      rows[pages[p][a]].created_at >= rows[pages[p + 1][b]].created_at

C15_Witness ==
    /\ ret.op = "admin_pagination"
    /\ inflight.scan.op = "admin_pagination"
    /\ Len(inflight.scan.pages) = 2
    /\ inflight.scan.pages[1] # <<>>
    /\ inflight.scan.pages[2] # <<>>
    /\ rows[inflight.scan.pages[1][1]].created_at
          > rows[inflight.scan.pages[2][1]].created_at

\* C17: get_detail, get_pagination, admin_pagination and stat, with the
\* tasks of stat, leave every row as it was; get_detail of an id no row has
\* returns None and does not raise, and of an id a row has returns the row.
C17_ReadsLeaveRows ==
    [][/\ rows' = rows
       /\ (calls' # calls /\ ret'.op = "get_detail") =>
             /\ ret'.kind = "return"
             /\ ret'.val = IF ret'.args.id \in DOMAIN rows
                           THEN Some(DetailParserRequest(ret'.args.id,
                                                         rows[ret'.args.id]))
                           ELSE None]_vars

C17_Witness ==
    /\ ret.op = "get_detail"
    /\ ret.kind = "return"
    /\ ret.val = None
    /\ rows # <<>>
    /\ ret.args.id \notin DOMAIN rows
    /\ calls = MaxReads

----------------------------------------------------------------------------
\* Claims about the boundary, under SpecParse.

\* C18: _parse_json returns an instance only when the body validates
\* against one of the schemas, and then the instance of the first schema in
\* order that validates it; for every other body and for an empty list of
\* schemas it raises HTTPBadRequest; create is called with an instance
\* _parse_json returned and with nothing else, and the input_data of every
\* row is a valid instance of one of the two variants.
C18_InvalidInputRejected ==
    /\ ret.op = "_parse_json" =>
          LET body == ret.args.body
              schemas == ret.args.schemas
              valid == {n \in DOMAIN schemas :
                          /\ body.content = "json"
                          /\ model_validate(schemas[n], body.doc)[1] = "BaseModel"}
          IN  IF valid # {}
              THEN LET first == CHOOSE n \in valid : \A m \in valid : n <= m
                   IN  /\ ret.kind = "return"
                       /\ ret.val = Some(model_validate(schemas[first], body.doc)[2])
              ELSE ret.kind = "raise" /\ ret.exc = "HTTPBadRequest"
    /\ ret.op = "create" => ret.args.input_data[1] \in Inputs
    /\ \A i \in DOMAIN rows : rows[i].input_data \in Inputs

----------------------------------------------------------------------------
\* Claims about concurrent writers, under SpecRace.

\* A table after one write: the values of the write on the row of its id,
\* if there is one.
Applied(table, write) ==
    IF write.id \in DOMAIN table
    THEN [table EXCEPT ![write.id] =
             [f \in DOMAIN table[write.id] |->
                 IF f \in DOMAIN write.values THEN write.values[f]
                 ELSE table[write.id][f]]]
    ELSE table

\* A table after the writes of the first n workers of q, one after another.
RECURSIVE AppliedInOrder(_, _, _)
AppliedInOrder(table, q, n) ==
    IF n = 0 THEN table
    ELSE Applied(AppliedInOrder(table, q, n - 1), inflight.workers[q[n]].write)

\* C20: with two workers writing at the same time, each write one UPDATE
\* of one row committed in a session of its own, the table is at every
\* moment the table that the writes committed so far give when they are
\* made one after another in some order, and no write, whether its id has
\* a row or not, adds a row.
C20_WritesSerialize ==
    LET committed == {w \in Workers : inflight.workers[w].committed}
    IN  /\ DOMAIN rows = DOMAIN inflight.table
        /\ \E q \in Orders(committed) :
              rows = AppliedInOrder(inflight.table, q, Len(q))

C20_Witness ==
    /\ \A w \in Workers :
          /\ inflight.workers[w].committed
          /\ inflight.workers[w].write.id \in DOMAIN rows
    /\ \E q1, q2 \in Orders(Workers) :
          AppliedInOrder(inflight.table, q1, Len(q1))
              # AppliedInOrder(inflight.table, q2, Len(q2))

====
